---- MODULE Spec2Model ----
(***************************************************************************)
(* The Pomodoro timer of src/src/App.js as a state machine.                *)
(*                                                                         *)
(* The React component keeps its state in hooks; every callback (interval  *)
(* tick, timeout, click or key handler) runs to completion, React then     *)
(* re-renders and re-runs the effects whose dependencies changed.  One     *)
(* action of this module is one callback together with the render and the  *)
(* effects that follow it.  A callback that was created during an earlier  *)
(* render sees the state of THAT render (its closure); the timers and the  *)
(* keyboard listener therefore carry the render they were created in.      *)
(***************************************************************************)
EXTENDS Integers, Sequences, FiniteSets, TLC

\* ---------------------------------------------------------------- constants

WORK == "work"
SHORT_BREAK == "short-break"
LONG_BREAK == "long-break"

TIMER_MODES == {WORK, SHORT_BREAK, LONG_BREAK}

DEFAULT_SETTINGS ==
  [workDuration |-> 25, shortBreakDuration |-> 5, longBreakDuration |-> 15,
   longBreakInterval |-> 4, autoStartBreaks |-> TRUE, autoStartWork |-> FALSE,
   soundEnabled |-> TRUE]

\* The freshness window of the session snapshot, in minutes.
fiveMinutes == 5

\* ------------------------------------------------------------------- bounds

\* Ticks are explored only while at most this many seconds remain.
MaxCountdown == 300

\* No more than this many work sessions are credited.
MaxSessions == 2

\* totalFocusTime is explored up to this many minutes, or up to the credit of
\* the sessions counted if that is more.
MaxFocus == 5

\* No more than this many auto-start timeouts are pending at once.
MaxAutoStart == 1

\* The configurations the settings dialog saves (besides the defaults).  Its
\* buttons step the work and long-break minutes by 5 and the short-break
\* minutes and the interval by 1, all clamped to 1..60.
QuickSettings ==
  [workDuration |-> 1, shortBreakDuration |-> 1, longBreakDuration |-> 1,
   longBreakInterval |-> 4, autoStartBreaks |-> TRUE, autoStartWork |-> TRUE,
   soundEnabled |-> TRUE]

ManualSettings ==
  [workDuration |-> 1, shortBreakDuration |-> 2, longBreakDuration |-> 1,
   longBreakInterval |-> 2, autoStartBreaks |-> FALSE, autoStartWork |-> FALSE,
   soundEnabled |-> TRUE]

SettingsChoices == {QuickSettings, ManualSettings}

\* The configuration saved before the mount of SpecKeys.
FocusSettings ==
  [workDuration |-> 5, shortBreakDuration |-> 1, longBreakDuration |-> 1,
   longBreakInterval |-> 2, autoStartBreaks |-> FALSE, autoStartWork |-> TRUE,
   soundEnabled |-> TRUE]

\* The defaults with a work interval of 10 minutes.
ShorterSettings ==
  [workDuration |-> 10, shortBreakDuration |-> 5, longBreakDuration |-> 15,
   longBreakInterval |-> 4, autoStartBreaks |-> TRUE, autoStartWork |-> FALSE,
   soundEnabled |-> TRUE]

\* The configurations the dialog saves in SpecDurations: every duration
\* changes between some two of them.
DurationChoices == {QuickSettings, ManualSettings, FocusSettings, ShorterSettings}

\* The ages (minutes) a session snapshot can have when the page is loaded.
SnapshotAges == {2, 10}

\* ---------------------------------------------------------------- variables

VARIABLES
  settings,           \* useState settings
  currentMode,        \* useState currentMode
  timeLeft,           \* useState timeLeft (seconds)
  isRunning,          \* useState isRunning
  completedSessions,  \* useState completedSessions
  totalSessions,      \* useState totalSessions
  totalFocusTime,     \* useState totalFocusTime (minutes)
  showSettings,       \* useState showSettings (the settings dialog is open)
  soundEnabled,       \* useState soundEnabled
  storageThrows,      \* does every access to localStorage throw?
  intervalRef,        \* intervalRef.current: the interval it refers to (the render that
                      \* interval was created in), or NoTimer
  intervals,          \* the armed setIntervals, each the render it was created in
  completeTimeout,    \* the pending setTimeout(handleTimerComplete, 0): its render, or NoTimer
  autoStartTimeouts,  \* the pending setTimeout(() => setIsRunning(true), 1000), oldest first;
                      \* of each (history): has the user paused, reset or skipped since?
  shortcutRender,     \* the render the registered keydown listener was created in
  expired,            \* history: the state at the final tick, while its completion is pending
  countdown,          \* history: the uninterrupted countdown from a full interval, if one is on
  lastOp              \* history: the callback that ran last, [op, arg]

vars == <<settings, currentMode, timeLeft, isRunning, completedSessions, totalSessions,
          totalFocusTime, showSettings, soundEnabled, storageThrows, intervalRef,
          intervals, completeTimeout,
          autoStartTimeouts, shortcutRender, expired, countdown, lastOp>>

NoTimer == [none |-> TRUE]

\* shortcutRender of a behaviour in which no shortcut is pressed: nothing reads
\* the listener's render there, and it is not tracked.
NoShortcuts == [shortcuts |-> FALSE]

\* The bounds of the exploration.
WithinBounds ==
  /\ totalSessions <= MaxSessions
  /\ completedSessions <= MaxSessions
  /\ (totalFocusTime <= MaxFocus \/ totalFocusTime <= totalSessions * settings.workDuration)
  /\ Len(autoStartTimeouts) <= MaxAutoStart

\* ------------------------------------------------------------ pure helpers

\* Math.floor(a / b) for b > 0 (\div already rounds towards minus infinity).
Floor(a, b) == a \div b

\* Math.round(a / b) for b > 0: the nearest integer, halves towards plus infinity.
Round(a, b) == (2 * a + b) \div (2 * b)

Max(a, b) == IF a >= b THEN a ELSE b

\* getCurrentModeDuration / the totalTime of getProgress: seconds of a mode under s.
getCurrentModeDuration(s, mode) ==
  CASE mode = WORK -> s.workDuration * 60
    [] mode = SHORT_BREAK -> s.shortBreakDuration * 60
    [] mode = LONG_BREAK -> s.longBreakDuration * 60
    [] OTHER -> s.workDuration * 60

\* What the callbacks created during a render can see of it.
Render(s, mode, left, running, completed) ==
  [settings |-> s, currentMode |-> mode, timeLeft |-> left, isRunning |-> running,
   completedSessions |-> completed]

CurrentRender == Render(settings, currentMode, timeLeft, isRunning, completedSessions)

\* ------------------------------------------------------------------ effects

\* if (intervalRef.current) clearInterval(intervalRef.current): the armed
\* intervals that are left.
clearInterval(armed, ref) == armed \ {ref}

\* A timer effect that arms its interval without disarming the one before.
TimerEffectKeepsInterval(cleared) ==
  LET ref == IF cleared THEN NoTimer ELSE intervalRef
      armed == IF cleared THEN clearInterval(intervals, intervalRef) ELSE intervals
      render == Render(settings', currentMode', timeLeft', isRunning', completedSessions')
  IN IF isRunning' # isRunning \/ timeLeft' # timeLeft
     THEN IF isRunning' /\ timeLeft' > 0
          THEN intervalRef' = render /\ intervals' = armed \cup {render}
          ELSE intervalRef' = NoTimer /\ intervals' = armed
     ELSE intervalRef' = ref /\ intervals' = armed

\* The timer effect (deps [isRunning, timeLeft]): when a dependency changed its
\* cleanup and its first lines clear the interval intervalRef refers to, and it
\* arms a new one, of the new render, if the timer runs and time is left.
\* cleared: the callback itself cleared the interval of intervalRef before.
TimerEffect(cleared) ==
  LET ref == IF cleared THEN NoTimer ELSE intervalRef
      armed == IF cleared THEN clearInterval(intervals, intervalRef) ELSE intervals
      render == Render(settings', currentMode', timeLeft', isRunning', completedSessions')
  IN IF isRunning' # isRunning \/ timeLeft' # timeLeft
     THEN IF isRunning' /\ timeLeft' > 0
          THEN /\ intervalRef' = render
               /\ intervals' = clearInterval(armed, ref) \cup {render}
          ELSE /\ intervalRef' = NoTimer
               /\ intervals' = clearInterval(armed, ref)
     ELSE intervalRef' = ref /\ intervals' = armed

\* The keyboard effect (deps [isRunning, showSettings, ..., soundEnabled]): the keydown
\* listener is replaced by one of the new render only when a dependency changed.
KeyboardEffect ==
  shortcutRender' =
    IF shortcutRender = NoShortcuts THEN NoShortcuts
    ELSE IF isRunning' # isRunning \/ showSettings' # showSettings
            \/ soundEnabled' # soundEnabled
    THEN Render(settings', currentMode', timeLeft', isRunning', completedSessions')
    ELSE shortcutRender

\* History: a start at the full duration of the mode, with no completion
\* callback of an earlier expiry still pending, begins a countdown; a tick and
\* the completion callback continue it, any other callback ends it.
Countdown(op) ==
  countdown' =
    CASE op \in {"startTimer", "keySpace", "autoStart"} ->
           IF ~isRunning /\ isRunning' /\ completeTimeout = NoTimer
              /\ timeLeft = getCurrentModeDuration(settings, currentMode)
           THEN [full |-> timeLeft, ticks |-> 0, completions |-> 0, mode |-> currentMode,
                 totalSessions |-> totalSessions]
           ELSE NoTimer
      [] op = "tick" ->
           IF countdown = NoTimer THEN NoTimer
           ELSE [countdown EXCEPT !.ticks = @ + 1]
      [] op = "handleTimerComplete" ->
           IF countdown = NoTimer THEN NoTimer
           ELSE [countdown EXCEPT !.completions = @ + 1]
      [] OTHER -> NoTimer

\* The render and the effects that follow a callback (saveToStorage, called
\* by the save effects, catches what localStorage throws).
Effects(cleared, op, arg) ==
  /\ TimerEffect(cleared)
  /\ Countdown(op)
  /\ KeyboardEffect
  /\ UNCHANGED storageThrows
  /\ lastOp' = [op |-> op, arg |-> arg]
  /\ WithinBounds'

\* ----------------------------------------------------------------- handlers

\* The work sessions a call of handleTimerComplete of render r credits.
credited(r) == IF r.isRunning /\ r.currentMode = WORK THEN 1 ELSE 0

\* The mode and the seconds handleTimerComplete of render r moves to.
nextMode(r) ==
  IF r.currentMode = WORK
  THEN IF (r.completedSessions + 1) % r.settings.longBreakInterval = 0
       THEN LONG_BREAK
       ELSE SHORT_BREAK
  ELSE WORK

nextTimeLeft(r) ==
  IF r.currentMode = WORK
  THEN IF (r.completedSessions + 1) % r.settings.longBreakInterval = 0
       THEN r.settings.longBreakDuration * 60
       ELSE r.settings.shortBreakDuration * 60
  ELSE r.settings.workDuration * 60

\* Does handleTimerComplete of render r schedule the auto-start?
autoStarts(r) ==
  IF r.currentMode = WORK THEN r.settings.autoStartBreaks ELSE r.settings.autoStartWork

\* The pending auto-starts after a user action (history).
RECURSIVE UserActed(_)
UserActed(timeouts) ==
  IF timeouts = <<>> THEN <<>> ELSE <<TRUE>> \o UserActed(Tail(timeouts))

\* A completion that forgets setIsRunning(false).
handleTimerCompleteKeepsRunning(r, pending) ==
  IF ~r.isRunning
  THEN /\ autoStartTimeouts' = autoStartTimeouts
       /\ UNCHANGED <<isRunning, currentMode, timeLeft, completedSessions, totalSessions,
                      totalFocusTime>>
  ELSE /\ isRunning' = isRunning
       /\ IF r.currentMode = WORK
          THEN /\ completedSessions' = r.completedSessions + 1
               /\ totalSessions' = totalSessions + 1
               /\ totalFocusTime' = totalFocusTime + r.settings.workDuration
          ELSE UNCHANGED <<completedSessions, totalSessions, totalFocusTime>>
       /\ currentMode' = nextMode(r)
       /\ timeLeft' = nextTimeLeft(r)
       /\ autoStartTimeouts' = IF autoStarts(r) THEN Append(pending, FALSE) ELSE pending

\* handleTimerComplete as created during render r; pending: the auto-starts
\* that are pending when it runs.
handleTimerComplete(r, pending) ==
  IF ~r.isRunning
  THEN /\ autoStartTimeouts' = autoStartTimeouts
       /\ UNCHANGED <<isRunning, currentMode, timeLeft, completedSessions, totalSessions,
                      totalFocusTime>>
  ELSE /\ isRunning' = FALSE
       /\ IF r.currentMode = WORK
          THEN /\ completedSessions' = r.completedSessions + 1
               /\ totalSessions' = totalSessions + 1
               /\ totalFocusTime' = totalFocusTime + r.settings.workDuration
          ELSE UNCHANGED <<completedSessions, totalSessions, totalFocusTime>>
       /\ currentMode' = nextMode(r)
       /\ timeLeft' = nextTimeLeft(r)
       /\ autoStartTimeouts' = IF autoStarts(r) THEN Append(pending, FALSE) ELSE pending

startTimer ==
  /\ isRunning' = TRUE
  /\ UNCHANGED <<settings, soundEnabled, currentMode, timeLeft, completedSessions, totalSessions,
                 totalFocusTime, showSettings, completeTimeout, autoStartTimeouts, expired>>

\* A pause that also rewinds the interval to its full duration.
pauseTimerRewinds ==
  /\ isRunning' = FALSE
  /\ timeLeft' = getCurrentModeDuration(settings, currentMode)
  /\ autoStartTimeouts' = UserActed(autoStartTimeouts)
  /\ UNCHANGED <<settings, soundEnabled, currentMode, completedSessions, totalSessions,
                 totalFocusTime, showSettings, completeTimeout, expired>>

pauseTimer ==
  /\ isRunning' = FALSE
  /\ autoStartTimeouts' = UserActed(autoStartTimeouts)
  /\ UNCHANGED <<settings, soundEnabled, currentMode, timeLeft, completedSessions, totalSessions,
                 totalFocusTime, showSettings, completeTimeout, expired>>

\* The minutes of a reset that credits them without testing minutesSpent > 0.
minutesSpentUnguarded(r) ==
  IF r.currentMode = WORK /\ r.isRunning
  THEN Floor(r.settings.workDuration * 60 - r.timeLeft, 60)
  ELSE 0

\* The minutes resetTimer of render r adds to totalFocusTime.
minutesSpent(r) ==
  IF r.currentMode = WORK /\ r.isRunning
  THEN Max(0, Floor(r.settings.workDuration * 60 - r.timeLeft, 60))
  ELSE 0

\* History: the partial credit of a reset is not a credit of the completion.
Partial(atFinalTick, minutes) ==
  IF atFinalTick = NoTimer THEN NoTimer
  ELSE [atFinalTick EXCEPT !.totalFocusTime = @ + minutes]

\* A reset that restarts the interval of the current mode instead of going
\* back to WORK.
resetTimerSameMode(r) ==
  /\ totalFocusTime' = totalFocusTime + minutesSpent(r)
  /\ isRunning' = FALSE
  /\ currentMode' = r.currentMode
  /\ timeLeft' = getCurrentModeDuration(r.settings, r.currentMode)
  /\ autoStartTimeouts' = UserActed(autoStartTimeouts)
  /\ expired' = Partial(expired, minutesSpent(r))
  /\ UNCHANGED <<settings, soundEnabled, completedSessions, totalSessions, showSettings,
                 completeTimeout>>

\* resetTimer as created during render r.
resetTimer(r) ==
  /\ totalFocusTime' = totalFocusTime + minutesSpent(r)
  /\ isRunning' = FALSE
  /\ currentMode' = WORK
  /\ timeLeft' = r.settings.workDuration * 60
  /\ autoStartTimeouts' = UserActed(autoStartTimeouts)
  /\ expired' = Partial(expired, minutesSpent(r))
  /\ UNCHANGED <<settings, soundEnabled, completedSessions, totalSessions, showSettings,
                 completeTimeout>>

\* skipSession as created during render r: setIsRunning(false), then
\* handleTimerComplete of the same render.
skipSession(r) ==
  /\ handleTimerComplete(r, UserActed(autoStartTimeouts))
  /\ isRunning' = FALSE
  /\ UNCHANGED <<settings, soundEnabled, showSettings, completeTimeout, expired>>

\* The <<oldDuration, newDuration, timeLeft>>, among the durations of the
\* configurations above and timeLeft <= oldDuration, for which the IEEE double
\* newDuration - ((oldDuration - timeLeft) / oldDuration) * newDuration falls
\* just short of the half that the exact quotient reaches. (Of the larger
\* timeLeft that the specifications below reach, none is such an input.)
ShortOfHalf ==
  {<<120, 300, 43>>, <<120, 1500, 39>>, <<120, 1500, 43>>}
  \cup {<<600, 300, left>> : left \in {91, 117, 163, 189, 215, 241, 267}}
  \cup {<<600, 900, left>> : left \in {267, 273, 293, 299}}
  \cup {<<600, 1500, left>> : left \in {195, 215, 221, 241, 247, 267, 273, 293, 299}}

\* Math.round(newDuration - progress * newDuration) as the doubles compute it.
newTimeLeft(oldDuration, newDuration, left) ==
  IF <<oldDuration, newDuration, left>> \in ShortOfHalf
  THEN Round(newDuration * left, oldDuration) - 1
  ELSE Round(newDuration * left, oldDuration)

\* An updateSettings that, stopped or running, touches timeLeft only when the
\* duration of the current mode changed.
updateSettingsKeepsTimeLeft(newSettings) ==
  /\ settings' = newSettings
  /\ soundEnabled' = newSettings.soundEnabled
  /\ LET oldDuration == getCurrentModeDuration(settings, currentMode)
         newDuration == getCurrentModeDuration(newSettings, currentMode)
     IN IF oldDuration # newDuration
        THEN IF ~isRunning
             THEN timeLeft' = newDuration
             ELSE timeLeft' = Max(1, newTimeLeft(oldDuration, newDuration, timeLeft))
        ELSE timeLeft' = timeLeft

\* updateSettings(newSettings) of the current render.
updateSettings(newSettings) ==
  /\ settings' = newSettings
  /\ soundEnabled' = newSettings.soundEnabled
  /\ IF ~isRunning
     THEN timeLeft' = getCurrentModeDuration(newSettings, currentMode)
     ELSE LET oldDuration == getCurrentModeDuration(settings, currentMode)
              newDuration == getCurrentModeDuration(newSettings, currentMode)
          IN IF oldDuration # newDuration
             THEN timeLeft' = Max(1, newTimeLeft(oldDuration, newDuration, timeLeft))
             ELSE timeLeft' = timeLeft

\* getProgress(): ((totalTime - timeLeft) / totalTime) * 100, kept as the exact
\* fraction percent / over. (The double is exactly 0 when timeLeft = totalTime
\* and exactly 100 when timeLeft = 0.)
getProgress ==
  LET totalTime == IF currentMode = WORK THEN settings.workDuration * 60
                   ELSE IF currentMode = SHORT_BREAK THEN settings.shortBreakDuration * 60
                   ELSE settings.longBreakDuration * 60
  IN [percent |-> (totalTime - timeLeft) * 100, over |-> totalTime]

\* ------------------------------------------------------------------ actions

\* The first render threw a TypeError (it read a property of null): nothing is
\* mounted, there is no button to click and no listener.
Crashed == lastOp.op = "TypeError"

\* The completion of the final tick is a zero-delay timeout: at most one user
\* event, one that was already queued, is handled before it.
UserCanAct ==
  /\ ~Crashed
  /\ completeTimeout = NoTimer \/ lastOp.op = "tick"

\* An expiry test that lets the countdown run one tick past zero.
lastSecondLate(prevTime) == prevTime <= 0

\* The expiry test of the interval callback: this tick is the final one.
lastSecond(prevTime) == prevTime <= 1

\* The interval callback: one second elapsed.
Tick ==
  /\ intervals # {}
  /\ completeTimeout = NoTimer
  /\ autoStartTimeouts = <<>>
  /\ timeLeft <= MaxCountdown
  /\ IF lastSecond(timeLeft)
     THEN /\ timeLeft' = 0
          /\ \E interval \in intervals : completeTimeout' = interval
          /\ expired' = [settings |-> settings, currentMode |-> currentMode,
                         completedSessions |-> completedSessions,
                         totalSessions |-> totalSessions,
                         totalFocusTime |-> totalFocusTime]
     ELSE /\ timeLeft' = timeLeft - 1
          /\ UNCHANGED <<completeTimeout, expired>>
  /\ UNCHANGED <<settings, soundEnabled, currentMode, isRunning, completedSessions, totalSessions,
                 totalFocusTime, showSettings, autoStartTimeouts>>
  /\ Effects(lastSecond(timeLeft), "tick", 0)

\* The timeout of the final tick: handleTimerComplete of the interval's render.
TimerComplete ==
  /\ completeTimeout # NoTimer
  /\ handleTimerComplete(completeTimeout, autoStartTimeouts)
  /\ completeTimeout' = NoTimer
  /\ expired' = NoTimer
  /\ UNCHANGED <<settings, soundEnabled, showSettings>>
  /\ Effects(FALSE, "handleTimerComplete", credited(completeTimeout))

\* The auto-start timeout: setIsRunning(true), whatever happened meanwhile.
AutoStart ==
  /\ autoStartTimeouts # <<>>
  /\ completeTimeout = NoTimer
  /\ isRunning' = TRUE
  /\ autoStartTimeouts' = Tail(autoStartTimeouts)
  /\ UNCHANGED <<settings, soundEnabled, currentMode, timeLeft, completedSessions, totalSessions,
                 totalFocusTime, showSettings, completeTimeout, expired>>
  /\ Effects(FALSE, "autoStart", IF Head(autoStartTimeouts) THEN 1 ELSE 0)

\* The Start/Pause button (onClick = isRunning ? pauseTimer : startTimer).
ClickStart ==
  /\ UserCanAct
  /\ ~showSettings
  /\ ~isRunning
  /\ startTimer
  /\ Effects(FALSE, "startTimer", 0)

ClickPause ==
  /\ UserCanAct
  /\ ~showSettings
  /\ isRunning
  /\ pauseTimer
  /\ Effects(TRUE, "pauseTimer", 0)

\* The Reset button.
ClickReset ==
  /\ UserCanAct
  /\ ~showSettings
  /\ resetTimer(CurrentRender)
  /\ Effects(TRUE, "resetTimer", minutesSpent(CurrentRender))

\* The Skip button.
ClickSkip ==
  /\ UserCanAct
  /\ ~showSettings
  /\ skipSession(CurrentRender)
  /\ Effects(FALSE, "skipSession", credited(CurrentRender))

\* The space, R and S shortcuts: the handlers of the listener's render.
KeySpace ==
  /\ UserCanAct
  /\ shortcutRender # NoShortcuts
  /\ ~showSettings
  /\ IF shortcutRender.isRunning THEN pauseTimer ELSE startTimer
  /\ Effects(shortcutRender.isRunning, "keySpace", 0)

KeyR ==
  /\ UserCanAct
  /\ shortcutRender # NoShortcuts
  /\ ~showSettings
  /\ resetTimer(shortcutRender)
  /\ Effects(TRUE, "keyR", minutesSpent(shortcutRender))

KeyS ==
  /\ UserCanAct
  /\ shortcutRender # NoShortcuts
  /\ ~showSettings
  /\ skipSession(shortcutRender)
  /\ Effects(FALSE, "keyS", credited(shortcutRender))

\* The M shortcut: setSoundEnabled(!soundEnabled) with the soundEnabled of the
\* listener (the listener is registered again whenever soundEnabled changes),
\* and the functional update of settings.soundEnabled.
KeyM ==
  /\ UserCanAct
  /\ shortcutRender # NoShortcuts
  /\ ~showSettings
  /\ soundEnabled' = ~soundEnabled
  /\ settings' = [settings EXCEPT !.soundEnabled = ~settings.soundEnabled]
  /\ UNCHANGED <<currentMode, timeLeft, isRunning, completedSessions, totalSessions,
                 totalFocusTime, showSettings, completeTimeout, autoStartTimeouts, expired>>
  /\ Effects(FALSE, "keyM", 0)

\* The sound button of the quick actions: onClick = setSoundEnabled(!soundEnabled).
ClickSound ==
  /\ UserCanAct
  /\ ~showSettings
  /\ soundEnabled' = ~soundEnabled
  /\ UNCHANGED <<settings, currentMode, timeLeft, isRunning, completedSessions,
                 totalSessions, totalFocusTime, showSettings, completeTimeout,
                 autoStartTimeouts, expired>>
  /\ Effects(FALSE, "clickSound", 0)

\* The settings dialog: open, cancel, save (updateSettings, then onClose).
OpenSettings ==
  /\ UserCanAct
  /\ ~showSettings
  /\ showSettings' = TRUE
  /\ UNCHANGED <<settings, soundEnabled, currentMode, timeLeft, isRunning, completedSessions,
                 totalSessions, totalFocusTime, completeTimeout, autoStartTimeouts, expired>>
  /\ Effects(FALSE, "openSettings", 0)

CloseSettings ==
  /\ UserCanAct
  /\ showSettings
  /\ showSettings' = FALSE
  /\ UNCHANGED <<settings, soundEnabled, currentMode, timeLeft, isRunning, completedSessions,
                 totalSessions, totalFocusTime, completeTimeout, autoStartTimeouts, expired>>
  /\ Effects(FALSE, "closeSettings", 0)

\* The Save button of the dialog; lastOp.arg keeps the timeLeft before the save.
SaveSettings ==
  /\ UserCanAct
  /\ showSettings
  /\ \E newSettings \in SettingsChoices \cup {settings} : updateSettings(newSettings)
  /\ showSettings' = FALSE
  /\ UNCHANGED <<currentMode, isRunning, completedSessions, totalSessions,
                 totalFocusTime, completeTimeout, autoStartTimeouts, expired>>
  /\ Effects(FALSE, "updateSettings", timeLeft)

\* Save after the "Enable notifications" switch of the dialog was set.
SaveSound ==
  /\ UserCanAct
  /\ showSettings
  /\ \E sound \in BOOLEAN : updateSettings([settings EXCEPT !.soundEnabled = sound])
  /\ showSettings' = FALSE
  /\ UNCHANGED <<currentMode, isRunning, completedSessions, totalSessions,
                 totalFocusTime, completeTimeout, autoStartTimeouts, expired>>
  /\ Effects(FALSE, "updateSettings", timeLeft)

\* Save with one of the configurations of SpecDurations.
SaveDurations ==
  /\ UserCanAct
  /\ showSettings
  /\ \E newSettings \in DurationChoices : updateSettings(newSettings)
  /\ showSettings' = FALSE
  /\ UNCHANGED <<currentMode, isRunning, completedSessions, totalSessions,
                 totalFocusTime, completeTimeout, autoStartTimeouts, expired>>
  /\ Effects(FALSE, "updateSettings", timeLeft)

\* The Reset All Data button of the dialog, confirmed; lastOp.arg keeps the
\* totalSessions before it.  localStorage.removeItem is called outside any
\* try: if it throws, the handler ends there and no state is set.
ResetAllData ==
  /\ UserCanAct
  /\ showSettings
  /\ IF storageThrows
     THEN /\ lastOp' = [op |-> "resetAllData", arg |-> totalSessions]
          /\ UNCHANGED <<settings, soundEnabled, storageThrows, currentMode, timeLeft,
                         isRunning, completedSessions, totalSessions, totalFocusTime,
                         showSettings, intervalRef, intervals, completeTimeout,
                         autoStartTimeouts, shortcutRender, expired, countdown>>
     ELSE /\ settings' = DEFAULT_SETTINGS
          /\ currentMode' = WORK
          /\ timeLeft' = DEFAULT_SETTINGS.workDuration * 60
          /\ isRunning' = FALSE
          /\ completedSessions' = 0
          /\ totalSessions' = 0
          /\ totalFocusTime' = 0
          /\ soundEnabled' = DEFAULT_SETTINGS.soundEnabled
          /\ autoStartTimeouts' = UserActed(autoStartTimeouts)
          /\ UNCHANGED <<showSettings, completeTimeout, expired>>
          /\ Effects(FALSE, "resetAllData", totalSessions)

\* The Reset All Data button of the dialog, with window.confirm declined:
\* no state is set and nothing renders.
DeclineResetAllData ==
  /\ UserCanAct
  /\ showSettings
  /\ lastOp' = [op |-> "resetAllDataDeclined", arg |-> 0]
  /\ UNCHANGED <<settings, soundEnabled, storageThrows, currentMode, timeLeft, isRunning,
                 completedSessions, totalSessions, totalFocusTime, showSettings,
                 intervalRef, intervals, completeTimeout, autoStartTimeouts,
                 shortcutRender, expired, countdown>>

\* ------------------------------------------------------- mount and reload

\* What localStorage holds under one key: nothing, text that JSON.parse
\* rejects, the text "null", or the JSON text of a value.
NoItem == [kind |-> "none"]
Unparsable == [kind |-> "unparsable"]
StoredNull == [kind |-> "null"]
Json(value) == [kind |-> "json", value |-> value]

\* The value JSON.parse gives for the text "null".
Null == [null |-> TRUE]

\* loadFromStorage: the default if getItem throws, finds nothing or JSON.parse
\* throws; otherwise whatever was parsed, null included.
loadFromStorage(stored, defaultValue) ==
  IF storageThrows \/ stored = NoItem \/ stored = Unparsable THEN defaultValue
  ELSE IF stored = StoredNull THEN Null
  ELSE stored.value

\* The defaults the state initialisers hand to loadFromStorage: { mode: WORK }
\* and {} for the snapshot (no timeLeft and no timestamp: falsy), zeros for
\* the progress.
NoSession == [mode |-> WORK, timeLeft |-> 0, age |-> 0]
NoProgress == [completedSessions |-> 0, totalSessions |-> 0, totalFocusTime |-> 0]

\* The session snapshot the save effect keeps in localStorage.
StoredSession == [mode |-> currentMode, timeLeft |-> timeLeft]

\* The initial timeLeft: sessionState.timeLeft || storedSettings.workDuration * 60.
InitialTimeLeft(sessionState, storedSettings) ==
  IF sessionState.timeLeft # 0 THEN sessionState.timeLeft
                               ELSE storedSettings.workDuration * 60

\* The restore effect: the snapshot is applied if it is younger than five
\* minutes and has time left.
Restorable(sessionState) ==
  sessionState.age < fiveMinutes /\ sessionState.timeLeft > 0

\* A reload after which the timer goes on running if it ran before.
ReloadKeepsRunning ==
  \E age \in SnapshotAges :
    LET storedSettings == loadFromStorage(Json(settings), DEFAULT_SETTINGS)
        sessionState ==
          loadFromStorage(Json([mode |-> StoredSession.mode,
                                timeLeft |-> StoredSession.timeLeft, age |-> age]),
                          NoSession)
        progressData ==
          loadFromStorage(Json([completedSessions |-> completedSessions,
                                totalSessions |-> totalSessions,
                                totalFocusTime |-> totalFocusTime]), NoProgress)
        initialMode == sessionState.mode
        initialTimeLeft == InitialTimeLeft(sessionState, storedSettings)
        saved == loadFromStorage(Json([mode |-> initialMode, timeLeft |-> initialTimeLeft,
                                       age |-> 0]), NoSession)
    IN /\ UserCanAct
       /\ settings' = storedSettings
       /\ soundEnabled' = storedSettings.soundEnabled
       /\ completedSessions' = progressData.completedSessions
       /\ totalSessions' = progressData.totalSessions
       /\ totalFocusTime' = progressData.totalFocusTime
       /\ UNCHANGED storageThrows
       /\ currentMode' = IF Restorable(saved) THEN saved.mode ELSE initialMode
       /\ timeLeft' = IF Restorable(saved) THEN saved.timeLeft ELSE initialTimeLeft
       /\ isRunning' = isRunning
       /\ showSettings' = FALSE
       /\ completeTimeout' = NoTimer
       /\ autoStartTimeouts' = <<>>
       /\ expired' = NoTimer
       /\ countdown' = NoTimer
       /\ intervalRef' =
            IF isRunning
            THEN Render(settings', currentMode', timeLeft', TRUE, completedSessions')
            ELSE NoTimer
       /\ intervals' = IF isRunning THEN {intervalRef'} ELSE {}
       /\ shortcutRender' =
            IF shortcutRender = NoShortcuts THEN NoShortcuts
            ELSE Render(settings', currentMode', timeLeft', FALSE, completedSessions')
       /\ lastOp' = [op |-> "reload", arg |-> age, wasRunning |-> isRunning]
       /\ WithinBounds'


\* The page is reloaded age minutes after the snapshot was saved: every timer
\* is gone and the component mounts from what localStorage holds.  The state
\* hooks start from the stored snapshot, whatever its age; the save effect
\* then writes the snapshot of this first render (age 0), and the restore
\* effect, which runs after it, reads that one.
Reload ==
  \E age \in SnapshotAges :
    LET storedSettings == loadFromStorage(Json(settings), DEFAULT_SETTINGS)
        sessionState ==
          loadFromStorage(Json([mode |-> StoredSession.mode,
                                timeLeft |-> StoredSession.timeLeft, age |-> age]),
                          NoSession)
        progressData ==
          loadFromStorage(Json([completedSessions |-> completedSessions,
                                totalSessions |-> totalSessions,
                                totalFocusTime |-> totalFocusTime]), NoProgress)
        initialMode == sessionState.mode
        initialTimeLeft == InitialTimeLeft(sessionState, storedSettings)
        saved == loadFromStorage(Json([mode |-> initialMode, timeLeft |-> initialTimeLeft,
                                       age |-> 0]), NoSession)
    IN /\ UserCanAct
       /\ settings' = storedSettings
       /\ soundEnabled' = storedSettings.soundEnabled
       /\ completedSessions' = progressData.completedSessions
       /\ totalSessions' = progressData.totalSessions
       /\ totalFocusTime' = progressData.totalFocusTime
       /\ UNCHANGED storageThrows
       /\ currentMode' = IF Restorable(saved) THEN saved.mode ELSE initialMode
       /\ timeLeft' = IF Restorable(saved) THEN saved.timeLeft ELSE initialTimeLeft
       /\ isRunning' = FALSE
       /\ showSettings' = FALSE
       /\ completeTimeout' = NoTimer
       /\ autoStartTimeouts' = <<>>
       /\ expired' = NoTimer
       /\ countdown' = NoTimer
       /\ intervalRef' = NoTimer
       /\ intervals' = {}
       /\ shortcutRender' =
            IF shortcutRender = NoShortcuts THEN NoShortcuts
            ELSE Render(settings', currentMode', timeLeft', FALSE, completedSessions')
       /\ lastOp' = [op |-> "reload", arg |-> age, wasRunning |-> isRunning]
       /\ WithinBounds'

\* The state after a mount with the settings s in localStorage, no work
\* session credited and the snapshot of a fresh WORK interval (or none).
MountedState(s, listener) ==
  /\ settings = s
  /\ soundEnabled = s.soundEnabled
  /\ currentMode = WORK
  /\ timeLeft = InitialTimeLeft([mode |-> WORK, timeLeft |-> s.workDuration * 60], s)
  /\ isRunning = FALSE
  /\ completedSessions = 0
  /\ totalSessions = 0
  /\ totalFocusTime = 0
  /\ showSettings = FALSE
  /\ intervalRef = NoTimer
  /\ intervals = {}
  /\ completeTimeout = NoTimer
  /\ autoStartTimeouts = <<>>
  /\ shortcutRender = listener
  /\ expired = NoTimer
  /\ countdown = NoTimer
  /\ lastOp = [op |-> "mount", arg |-> 0]

\* The first render threw: no state, no timer, no listener.
Unmounted ==
  /\ settings = DEFAULT_SETTINGS
  /\ soundEnabled = DEFAULT_SETTINGS.soundEnabled
  /\ currentMode = WORK
  /\ timeLeft = 0
  /\ isRunning = FALSE
  /\ completedSessions = 0
  /\ totalSessions = 0
  /\ totalFocusTime = 0
  /\ showSettings = FALSE
  /\ intervalRef = NoTimer
  /\ intervals = {}
  /\ completeTimeout = NoTimer
  /\ autoStartTimeouts = <<>>
  /\ shortcutRender = NoShortcuts
  /\ expired = NoTimer
  /\ countdown = NoTimer
  /\ lastOp = [op |-> "TypeError", arg |-> 0]

\* The mount from what localStorage holds under the three keys.  The state
\* initialisers read .mode and .timeLeft of the snapshot, .workDuration and
\* .soundEnabled of the settings and the counters of the progress: a null
\* among the three is a TypeError in the first render.
MountedFrom(settingsItem, sessionItem, progressItem) ==
  LET storedSettings == loadFromStorage(settingsItem, DEFAULT_SETTINGS)
      sessionState == loadFromStorage(sessionItem, NoSession)
      progressData == loadFromStorage(progressItem, NoProgress)
  IN IF storedSettings = Null \/ sessionState = Null \/ progressData = Null
     THEN Unmounted
     ELSE MountedState(storedSettings, NoShortcuts)

\* The same with a localStorage that works.
Mounted(s, listener) ==
  /\ MountedState(s, listener)
  /\ storageThrows = FALSE

\* ----------------------------------------------------------- specifications

\* First mount, nothing in localStorage; the user works with the mouse only.
Init == Mounted(DEFAULT_SETTINGS, NoShortcuts)

Next ==
  \/ Tick
  \/ TimerComplete
  \/ AutoStart
  \/ ClickStart
  \/ ClickPause
  \/ ClickReset
  \/ ClickSkip
  \/ OpenSettings
  \/ CloseSettings
  \/ SaveSettings
  \/ ResetAllData
  \/ DeclineResetAllData
  \/ Reload

Spec == Init /\ [][Next]_vars

\* A mount with settings saved earlier; the user works the timer with the
\* mouse and the keyboard shortcuts and leaves the settings alone.
InitKeys ==
  Mounted(FocusSettings, Render(FocusSettings, WORK, FocusSettings.workDuration * 60, FALSE, 0))

NextKeys ==
  \/ Tick
  \/ TimerComplete
  \/ AutoStart
  \/ ClickStart
  \/ ClickPause
  \/ ClickReset
  \/ ClickSkip
  \/ KeySpace
  \/ KeyR
  \/ KeyS

SpecKeys == InitKeys /\ [][NextKeys]_vars

\* First mount; the user starts and skips intervals and changes the durations
\* in the settings dialog.
NextDurations ==
  \/ Tick
  \/ TimerComplete
  \/ AutoStart
  \/ ClickStart
  \/ ClickSkip
  \/ OpenSettings
  \/ SaveDurations

SpecDurations == Init /\ [][NextDurations]_vars

\* A mount with short intervals saved earlier; the user starts, pauses, resets
\* and skips; the browser delivers every tick and every timeout that is due.
InitLive == Mounted(QuickSettings, NoShortcuts)

NextLive ==
  \/ Tick
  \/ TimerComplete
  \/ AutoStart
  \/ ClickStart
  \/ ClickPause
  \/ ClickReset
  \/ ClickSkip

\* Settings with a work duration outside 1..60, as anything else that writes
\* the settings key of this origin can leave them.
ZeroWorkSettings == [QuickSettings EXCEPT !.workDuration = 0]
LongWorkSettings == [QuickSettings EXCEPT !.workDuration = 90]

SettingsItems ==
  {NoItem, Unparsable, StoredNull, Json(QuickSettings), Json(ZeroWorkSettings),
   Json(LongWorkSettings)}

CorruptItems == {NoItem, Unparsable, StoredNull}

\* A mount from a localStorage that may throw on every access and may hold
\* corrupt items or settings out of range; the user works the timer with the
\* mouse and clears all data in the dialog.
InitStorage ==
  \E throws \in BOOLEAN, settingsItem \in SettingsItems,
     sessionItem \in CorruptItems, progressItem \in CorruptItems :
    /\ storageThrows = throws
    /\ MountedFrom(settingsItem, sessionItem, progressItem)

NextStorage ==
  \/ Tick
  \/ TimerComplete
  \/ AutoStart
  \/ ClickStart
  \/ ClickPause
  \/ ClickReset
  \/ ClickSkip
  \/ OpenSettings
  \/ CloseSettings
  \/ ResetAllData
  \/ DeclineResetAllData

SpecStorage == InitStorage /\ [][NextStorage]_vars

\* The same mount; the user starts, pauses, resets and skips; the browser
\* delivers every tick and every timeout that is due.
SpecStorageLive ==
  /\ InitStorage
  /\ [][NextLive]_vars
  /\ WF_vars(Tick)
  /\ WF_vars(TimerComplete)
  /\ WF_vars(AutoStart)

\* A mount with short intervals saved earlier; the user starts, pauses and
\* skips intervals, sets the sound with the button, the M shortcut and the
\* dialog, clears all data and reloads the page.
InitSound ==
  Mounted(QuickSettings, Render(QuickSettings, WORK, QuickSettings.workDuration * 60, FALSE, 0))

NextSound ==
  \/ AutoStart
  \/ ClickStart
  \/ ClickPause
  \/ ClickSkip
  \/ ClickSound
  \/ KeyM
  \/ OpenSettings
  \/ SaveSound
  \/ ResetAllData
  \/ Reload

SpecSound == InitSound /\ [][NextSound]_vars

SpecLive ==
  /\ InitLive
  /\ [][NextLive]_vars
  /\ WF_vars(Tick)
  /\ WF_vars(TimerComplete)
  /\ WF_vars(AutoStart)

\* ------------------------------------------------------------------- claims

\* The render skipSession would run handleTimerComplete in, were the timer
\* running in the current state.
RunningRender == Render(settings, currentMode, timeLeft, TRUE, completedSessions)

\* C1: every expiry is completed at most once: when the completion callback of
\* an expiry has run, totalSessions, completedSessions and totalFocusTime (the
\* partial credit of a reset apart) are at most one advance above what they
\* were at the final tick, whatever the user did in between.
C1_AtMostOncePerExpiry ==
  [][(completeTimeout # NoTimer /\ lastOp'.op = "handleTimerComplete") =>
       /\ totalSessions' <= expired.totalSessions + 1
       /\ completedSessions' <= expired.completedSessions + 1
       /\ totalFocusTime' <= expired.totalFocusTime + completeTimeout.settings.workDuration
     ]_vars

\* C2: after every completion of a WORK interval the mode is LONG_BREAK at
\* longBreakDuration * 60 seconds exactly when the incremented completedSessions
\* is divisible by longBreakInterval, and SHORT_BREAK at shortBreakDuration * 60
\* seconds otherwise.
C2_BreakAfterWork ==
  (lastOp.op \in {"handleTimerComplete", "skipSession", "keyS"} /\ lastOp.arg = 1) =>
    IF completedSessions % settings.longBreakInterval = 0
    THEN currentMode = LONG_BREAK /\ timeLeft = settings.longBreakDuration * 60
    ELSE currentMode = SHORT_BREAK /\ timeLeft = settings.shortBreakDuration * 60

\* C3: a countdown started at the full duration of the mode and left alone has
\* full - ticks seconds left and no completion before its last tick; its last
\* tick (tick number full) leaves 0 seconds and one pending completion; that
\* completion runs once, stops the timer and credits a work session exactly if
\* the interval was a WORK interval.
C3_CountdownCompletesOnce ==
  countdown # NoTimer =>
    /\ countdown.ticks <= countdown.full
    /\ countdown.completions <= 1
    /\ countdown.completions = 0 =>
         /\ timeLeft = countdown.full - countdown.ticks
         /\ isRunning
         /\ currentMode = countdown.mode
         /\ totalSessions = countdown.totalSessions
         /\ (completeTimeout # NoTimer) <=> (countdown.ticks = countdown.full)
    /\ countdown.completions = 1 =>
         /\ countdown.ticks = countdown.full
         /\ completeTimeout = NoTimer
         /\ ~isRunning
         /\ currentMode # countdown.mode
         /\ totalSessions =
              countdown.totalSessions + (IF countdown.mode = WORK THEN 1 ELSE 0)

\* C3 witness: a WORK countdown ran from its full duration to its completion.
C3_Witness ==
  /\ countdown # NoTimer
  /\ countdown.completions = 1
  /\ countdown.mode = WORK
  /\ countdown.ticks = settings.workDuration * 60

\* C4: an auto-start timeout that fires after the user has paused, reset or
\* skipped since it was scheduled does not start the timer.
C4_AutoStartCancelled ==
  (lastOp.op = "autoStart" /\ lastOp.arg = 1) => ~isRunning

\* C5: a reload restores the stored snapshot verbatim if it is younger than
\* five minutes, and otherwise starts in WORK at the full work duration.
C5_FreshSnapshotOnly ==
  [][lastOp'.op = "reload" =>
       IF lastOp'.arg < fiveMinutes
       THEN currentMode' = StoredSession.mode /\ timeLeft' = StoredSession.timeLeft
       ELSE currentMode' = WORK /\ timeLeft' = settings'.workDuration * 60
     ]_vars

\* C6: after a reset (button or R), from whatever state, the mode is WORK, the full
\* work duration is left and the timer does not run.
C6_ResetToWork ==
  lastOp.op \in {"resetTimer", "keyR"} =>
    /\ currentMode = WORK
    /\ timeLeft = settings.workDuration * 60
    /\ ~isRunning

\* C6 witness: the Reset button was pressed while a break was pending its
\* completion, under settings other than the defaults.
C6_Witness ==
  /\ lastOp.op = "resetTimer"
  /\ completeTimeout # NoTimer
  /\ completeTimeout.currentMode # WORK
  /\ settings # DEFAULT_SETTINGS
  /\ currentMode = WORK

\* C7: a reset (button or R) adds floor((workDuration * 60 - timeLeft) / 60) to
\* totalFocusTime if the mode is WORK and the timer runs, with timeLeft as it is
\* at the reset, and nothing otherwise.
C7_ResetCredit ==
  [][lastOp'.op \in {"resetTimer", "keyR"} =>
       totalFocusTime' =
         totalFocusTime +
           (IF currentMode = WORK /\ isRunning
            THEN Floor(settings.workDuration * 60 - timeLeft, 60)
            ELSE 0)
     ]_vars

\* C8: the completion of an expired interval moves to the mode and the seconds
\* that Skip moves to from the mode, completedSessions and settings of the
\* state in which the interval expired.
C8_ExpiryLikeSkip ==
  [][lastOp'.op = "handleTimerComplete" =>
       LET atExpiry == Render(expired.settings, expired.currentMode, 0, TRUE,
                              expired.completedSessions)
       IN /\ currentMode' = nextMode(atExpiry)
          /\ timeLeft' = nextTimeLeft(atExpiry)
     ]_vars

\* C9: Skip, whether the timer runs or not, stops the timer and completes the
\* session: the mode and the seconds are those of the mode transition, and a
\* WORK interval is credited with one session and workDuration focus minutes.
C9_SkipIsPauseThenComplete ==
  [][lastOp'.op = "skipSession" =>
       /\ ~isRunning'
       /\ currentMode' = nextMode(RunningRender)
       /\ timeLeft' = nextTimeLeft(RunningRender)
       /\ completedSessions' = completedSessions + credited(RunningRender)
       /\ totalSessions' = totalSessions + credited(RunningRender)
       /\ totalFocusTime' =
            totalFocusTime + credited(RunningRender) * settings.workDuration
     ]_vars

\* C10: the seconds left are never negative and never more than the duration of
\* the current mode under the current settings.
C10_TimeLeftInRange ==
  /\ 0 <= timeLeft
  /\ timeLeft <= getCurrentModeDuration(settings, currentMode)

\* C11: at most one interval is armed, and it is the one intervalRef refers
\* to (so the next arming can disarm it), however start and pause alternate.
C11_OneInterval ==
  /\ Cardinality(intervals) <= 1
  /\ intervals = IF intervalRef = NoTimer THEN {} ELSE {intervalRef}

\* C11 witness: the timer was paused in the middle of a countdown and started
\* again, and an interval is armed.
C11_Witness ==
  /\ lastOp.op = "startTimer"
  /\ intervals # {}
  /\ 0 < timeLeft
  /\ timeLeft < getCurrentModeDuration(settings, currentMode)

\* C12: right after every completion (expiry or Skip) the timer does not run,
\* and the timer starts to run only by startTimer (button or space key) or by
\* the auto-start timeout.
C12_StoppedByCompletion ==
  [][/\ lastOp'.op \in {"handleTimerComplete", "skipSession", "keyS"} => ~isRunning'
     /\ (~isRunning /\ isRunning') => lastOp'.op \in {"startTimer", "keySpace", "autoStart"}
    ]_vars

\* C12 witness: a WORK interval expired, its completion stopped the timer and
\* the auto-start has started the break.
C12_Witness ==
  /\ lastOp.op = "autoStart"
  /\ isRunning
  /\ currentMode = SHORT_BREAK
  /\ completedSessions = 1
  /\ totalFocusTime = settings.workDuration

\* C13: after a completion (expiry, or Skip of a running interval) of a WORK
\* interval with autoStartBreaks on, or of a break with autoStartWork on, a
\* start is scheduled; with the flag off no start is scheduled, so that the
\* timer stays stopped until the user starts it.
C13_AutoStartAsConfigured ==
  [][LET expiry == lastOp'.op = "handleTimerComplete"
         skip == lastOp'.op \in {"skipSession", "keyS"} /\ isRunning
         completed == IF expiry THEN completeTimeout.currentMode ELSE currentMode
         flag == IF completed = WORK THEN settings.autoStartBreaks
                                     ELSE settings.autoStartWork
     IN (expiry \/ skip) => (flag <=> autoStartTimeouts' # <<>>)
    ]_vars

\* C14: every completion of a WORK interval, by expiry or by skip, adds exactly
\* the workDuration configured at that moment to totalFocusTime.
C14_CreditsConfiguredWork ==
  [][LET expiry == lastOp'.op = "handleTimerComplete" /\ completeTimeout.isRunning
                   /\ completeTimeout.currentMode = WORK
         skip == lastOp'.op \in {"skipSession", "keyS"} /\ isRunning /\ currentMode = WORK
     IN (expiry \/ skip) => totalFocusTime' = totalFocusTime + settings.workDuration]_vars

\* C15: completedSessions grows by exactly 1 on each completion of a WORK
\* interval (an expiry, or a skip while running), Reset All Data sets it to 0,
\* and no other step changes it.
C15_CompletedSessionsCount ==
  [][LET expiry == lastOp'.op = "handleTimerComplete" /\ completeTimeout.isRunning
                   /\ completeTimeout.currentMode = WORK
         skip == lastOp'.op \in {"skipSession", "keyS"} /\ isRunning /\ currentMode = WORK
     IN completedSessions' = IF expiry \/ skip THEN completedSessions + 1
                             ELSE IF lastOp'.op = "resetAllData" THEN 0
                             ELSE completedSessions]_vars

C17_BreakCompletion ==
  [][LET expiry == lastOp'.op = "handleTimerComplete" /\ completeTimeout.isRunning
                   /\ completeTimeout.currentMode # WORK
         skip == lastOp'.op \in {"skipSession", "keyS"} /\ isRunning /\ currentMode # WORK
     IN (expiry \/ skip) =>
          /\ currentMode' = WORK
          /\ timeLeft' = settings'.workDuration * 60
          /\ UNCHANGED <<completedSessions, totalSessions, totalFocusTime>>]_vars

\* C18: a save of the settings dialog while the timer is not running sets
\* timeLeft to the full duration of the current mode under the saved
\* configuration and leaves currentMode and isRunning unchanged, whatever
\* timeLeft was and whether or not that duration changed.
C18_SaveWhileStopped ==
  [][(lastOp'.op = "updateSettings" /\ ~isRunning) =>
       /\ timeLeft' = getCurrentModeDuration(settings', currentMode)
       /\ currentMode' = currentMode
       /\ isRunning' = isRunning]_vars

\* C18 witness: a save with the timer paused partway through an interval
\* whose duration the save did not shorten.
C18_Witness ==
  /\ lastOp.op = "updateSettings"
  /\ ~isRunning
  /\ 0 < lastOp.arg
  /\ lastOp.arg < timeLeft
  /\ lastOp.arg % 60 # 0
  /\ timeLeft = getCurrentModeDuration(settings, currentMode)

\* C19: a save of the settings dialog while the timer runs, when the duration
\* of the current mode changed, sets timeLeft to
\* max(1, round(newDuration * timeLeft / oldDuration)), which lies between 1
\* and newDuration; when that duration did not change timeLeft is unchanged.
C19_SaveWhileRunning ==
  [][(lastOp'.op = "updateSettings" /\ isRunning) =>
       LET oldDuration == getCurrentModeDuration(settings, currentMode)
           newDuration == getCurrentModeDuration(settings', currentMode)
       IN IF oldDuration # newDuration
          THEN /\ timeLeft' = Max(1, Round(newDuration * timeLeft, oldDuration))
               /\ 1 <= timeLeft'
               /\ timeLeft' <= newDuration
          ELSE timeLeft' = timeLeft]_vars

\* C20: a start sets isRunning and arms the interval at the current timeLeft, a
\* pause clears isRunning and the interval; both leave currentMode, timeLeft,
\* completedSessions and totalFocusTime unchanged, so that a start after a pause
\* resumes from the same timeLeft.
C20_StartPauseFrame ==
  [][LET start == lastOp'.op = "startTimer" \/ (lastOp'.op = "keySpace" /\ ~isRunning)
         pause == lastOp'.op = "pauseTimer" \/ (lastOp'.op = "keySpace" /\ isRunning)
     IN (start \/ pause) =>
          /\ isRunning' = start
          /\ UNCHANGED <<currentMode, timeLeft, completedSessions, totalFocusTime>>
          /\ (start /\ timeLeft > 0) =>
               (intervalRef' # NoTimer /\ intervalRef'.timeLeft = timeLeft)
          /\ pause => intervals' = {}]_vars

\* C20 witness: a break paused partway was started again with the space bar
\* and counts down from where it stopped.
C20_Witness ==
  /\ lastOp.op = "keySpace"
  /\ isRunning
  /\ currentMode # WORK
  /\ completedSessions = 1
  /\ timeLeft % 60 # 0
  /\ intervalRef # NoTimer
  /\ intervalRef.timeLeft = timeLeft

\* The completion of the running interval is within the bounds of the
\* exploration.
CompletionWithinBounds ==
  /\ timeLeft <= MaxCountdown
  /\ totalSessions < MaxSessions
  /\ completedSessions < MaxSessions
  /\ totalFocusTime < MaxFocus

\* C22: the timer is never stuck: no state is running at timeLeft 0 without a
\* pending completion, a stopped timer can be started, and a running interval,
\* with every tick and timeout delivered, leads to another mode unless the
\* user pauses or resets it.
C22_NeverStuck ==
  /\ [](~(isRunning /\ timeLeft = 0 /\ completeTimeout = NoTimer))
  /\ []((~isRunning /\ completeTimeout = NoTimer) => ENABLED ClickStart)
  /\ \A mode \in TIMER_MODES :
       (isRunning /\ currentMode = mode /\ CompletionWithinBounds)
         ~> (currentMode # mode \/ lastOp.op \in {"pauseTimer", "resetTimer"})

\* C24: a confirmed Reset All Data leaves the default settings, WORK, 25 * 60
\* seconds, a stopped timer and all three counters at 0; a declined one changes
\* nothing; no other step lowers a counter.
C24_ResetAllData ==
  [][/\ lastOp'.op = "resetAllData" =>
          /\ settings' = DEFAULT_SETTINGS
          /\ currentMode' = WORK
          /\ timeLeft' = 25 * 60
          /\ ~isRunning'
          /\ completedSessions' = 0 /\ totalSessions' = 0 /\ totalFocusTime' = 0
     /\ lastOp'.op = "resetAllDataDeclined" =>
          UNCHANGED <<settings, currentMode, timeLeft, isRunning, completedSessions,
                      totalSessions, totalFocusTime, showSettings>>
     /\ lastOp'.op # "resetAllData" =>
          /\ completedSessions' >= completedSessions
          /\ totalSessions' >= totalSessions
          /\ totalFocusTime' >= totalFocusTime]_vars

\* C25: the progress percentage is exactly 0 after every completion, reset and
\* save with the timer stopped, exactly 100 when timeLeft is 0, and between 0
\* and 100 in every state.
C25_ProgressPercent ==
  [][LET completion == \/ lastOp'.op = "handleTimerComplete" /\ completeTimeout.isRunning
                       \/ lastOp'.op \in {"skipSession", "keyS"} /\ isRunning
         reset == lastOp'.op \in {"resetTimer", "keyR"}
         save == lastOp'.op = "updateSettings" /\ ~isRunning
         progress == getProgress'
     IN /\ (completion \/ reset \/ save) => progress.percent = 0
        /\ timeLeft' = 0 => progress.percent = 100 * progress.over
        /\ 0 <= progress.percent
        /\ progress.percent <= 100 * progress.over]_vars

\* C26: after the user has paused the timer, no tick, completion callback or
\* auto-start changes currentMode, timeLeft, isRunning or a counter before the
\* next user action.
C26_PausedStaysPaused ==
  [][LET paused == /\ ~isRunning
                   /\ lastOp.op = "pauseTimer" \/ lastOp.op = "keySpace"
         timer == lastOp'.op \in {"tick", "handleTimerComplete", "autoStart"}
     IN (paused /\ timer) =>
          UNCHANGED <<currentMode, timeLeft, isRunning, completedSessions, totalSessions,
                      totalFocusTime>>]_vars

\* C27: the R shortcut leaves the state the Reset button would leave and the S
\* shortcut the state the Skip button would leave (currentMode, timeLeft,
\* isRunning, totalFocusTime), whatever has elapsed since the keydown listener
\* was registered.
C27_ShortcutsLikeButtons ==
  [][/\ lastOp'.op = "keyR" =>
          /\ currentMode' = WORK
          /\ timeLeft' = settings.workDuration * 60
          /\ ~isRunning'
          /\ totalFocusTime' = totalFocusTime + minutesSpent(CurrentRender)
     /\ lastOp'.op = "keyS" =>
          /\ currentMode' = IF isRunning THEN nextMode(CurrentRender) ELSE currentMode
          /\ timeLeft' = IF isRunning THEN nextTimeLeft(CurrentRender) ELSE timeLeft
          /\ ~isRunning'
          /\ totalFocusTime' = totalFocusTime + credited(CurrentRender) * settings.workDuration
    ]_vars

\* C28: after a first mount with empty storage totalSessions equals
\* completedSessions in every reachable state.
C28_SessionCountersAgree == totalSessions = completedSessions

\* Nothing is armed: the timer is stopped and no interval, completion or
\* auto-start is pending.
Idle ==
  /\ ~isRunning
  /\ intervals = {}
  /\ completeTimeout = NoTimer
  /\ autoStartTimeouts = <<>>

\* C29: after a reload the timer is stopped with nothing armed, and it stays
\* so, with no tick, completion or auto-start taking place, until the user
\* starts it.
C29_StoppedAfterReload ==
  [][/\ lastOp'.op = "reload" => Idle'
     /\ (Idle /\ lastOp'.op \notin {"startTimer", "keySpace"}) =>
          /\ Idle'
          /\ lastOp'.op \notin {"tick", "handleTimerComplete", "autoStart"}]_vars

\* C29 witness: a reload while a break was running partway, its snapshot
\* fresh: the break is restored, stopped.
C29_Witness ==
  /\ lastOp.op = "reload"
  /\ lastOp.wasRunning
  /\ lastOp.arg < fiveMinutes
  /\ currentMode # WORK
  /\ timeLeft % 60 # 0
  /\ Idle

\* C30: the runtime sound flag always equals the soundEnabled of the settings
\* that are persisted, after any sequence of sound toggles (button, M
\* shortcut), saves of the dialog, clear-all and reloads.
C30_SoundFlagPersisted == soundEnabled = settings.soundEnabled

\* C21: in every reachable state the applied settings are within their
\* ranges: the three durations in 1..60 and longBreakInterval at least 1,
\* whether they come from the dialog or from localStorage at the mount.
C21_SettingsInRange ==
  /\ settings.workDuration \in 1..60
  /\ settings.shortBreakDuration \in 1..60
  /\ settings.longBreakDuration \in 1..60
  /\ settings.longBreakInterval >= 1

\* C23: a localStorage that throws or holds a corrupt item is not fatal:
\* the component always mounts, and the confirmed Reset All Data resets the
\* state as it does with a localStorage that works.
C23_StorageFailureNonFatal ==
  /\ [](~Crashed)
  /\ [][lastOp'.op = "resetAllData"
          => /\ settings' = DEFAULT_SETTINGS
             /\ currentMode' = WORK
             /\ timeLeft' = DEFAULT_SETTINGS.workDuration * 60
             /\ ~isRunning'
             /\ totalSessions' = 0]_vars

====
